---- MODULE Spec2Model ----
(***************************************************************************)
(* Trading simulation and performance evaluation of AlphaSignal.           *)
(*                                                                         *)
(*   src/src/rl/env/rolling_window_env.py   RollingWindowMomentumEnv       *)
(*   src/src/rl/env/crude_trading_env.py    CrudeTradingEnv                *)
(*   src/src/rl/evaluation/evaluate_rl_agent.py   backtest (policy replay) *)
(*   src/src/backtesting/backtest_trading.py      rule replay              *)
(*                                                                         *)
(* Numbers.  Prices are whole price units.  Returns, cost rates, rewards   *)
(* and equity are fixed-point numbers in units of 5e-5, so One stands for  *)
(* 1.0 and every cost rate of the source (0.0003, 0.0007, 0.00005, 0.0001, *)
(* 0.0002) is a whole number of units.  A quotient is truncated toward     *)
(* zero, which keeps the sign symmetry of the float division.  The         *)
(* denominator guards 1e-12 and eps = 1e-6 are below this resolution for   *)
(* every price >= 1 and do not change a quotient.                          *)
(***************************************************************************)
EXTENDS Integers, Sequences, FiniteSets, TLC

(* ------------------------------ bounds --------------------------------- *)
\* len(self.df): number of rows of the price table
NumRows == 6
\* close_price values are drawn from 1..MaxPrice
MaxPrice == 2
\* len(df) of the frame given to the rule-replay backtest
RuleRows == 4
\* initial_capital of the rule-replay backtest, in currency units
initial_capital == 100
\* window_size of the rolling-window environment (30 in the source) and the
\* start_index argument of the basic environment; rows below it are never
\* read by reset or step
window == 1
\* most rows of the frame of aligned pairs given to the accuracy backtest
MaxPairs == 3

Prices == 1..MaxPrice
Rows == 0..(NumRows - 1)
\* 0 hold, 1 long, 2 short; 3 stands for any value outside Discrete(3)
ActionValues == {0, 1, 2, 3}

(* --------------------------- fixed point ------------------------------- *)
\* 1.0 in units of 5e-5
One == 20 * 1000

Abs(x) == IF x < 0 THEN -x ELSE x

Sign(x) == IF x > 0 THEN 1 ELSE IF x < 0 THEN -1 ELSE 0

\* a / b truncated toward zero (b # 0)
Quot(a, b) == Sign(a) * Sign(b) * (Abs(a) \div Abs(b))

\* the product of two fixed-point numbers, a * b / One, truncated toward
\* zero; split so that no intermediate exceeds 32 bits
FMul(a, b) ==
    LET ah == Abs(a) \div One
        al == Abs(a) % One
        bh == Abs(b) \div One
        bl == Abs(b) % One
        sh == al * bh
        sl == al * bl
    IN  Sign(a) * Sign(b) *
          (ah * bh * One + ah * bl + sh + (sl \div One))

\* the quotient of two fixed-point numbers, a * One / b, truncated toward
\* zero (b # 0); long division digit by digit so that no intermediate
\* exceeds 32 bits
FDiv(a, b) ==
    LET d == Abs(b)
        q == Abs(a) \div d
        r == Abs(a) % d
        q1 == (r * 20) \div d
        r1 == (r * 20) % d
        q2 == (r1 * 10) \div d
        r2 == (r1 * 10) % d
        q3 == (r2 * 10) \div d
        r3 == (r2 * 10) % d
        q4 == (r3 * 10) \div d
    IN  Sign(a) * Sign(b) * (q * One + q1 * 1000 + q2 * 100 + q3 * 10 + q4)

(* ------------------------- program constants --------------------------- *)
\* RollingWindowMomentumEnv constructor arguments, as passed by
\* train_rl_agent.py and evaluate_rl_agent.py
RW_base_transaction_cost == 6
RW_base_slippage == 14
RW_train_transaction_cost == 1
RW_train_slippage == 2
RW_min_holding_days == 3
RW_momentum_coef == 4000
RW_vol_penalty == 2000
RW_xgb_align_coef == 4000

\* CrudeTradingEnv cost parameters
base_transaction_cost == 6
base_slippage == 14
train_transaction_cost == 2
train_slippage == 4
\* CrudeTradingEnv min_trade_hold default
CR_min_trade_hold == 1
\* margin kept before end_index by a random start
RandomStartMargin == 10

(* ------------------------------ state ---------------------------------- *)
VARIABLES
    env,                 \* "rolling" | "crude": the class of the simulation
    close_price,         \* df["close_price"], row -> price
    rates,               \* the base and the training (curriculum) cost rates
    use_cost_curriculum, \* self.use_cost_curriculum / self.cost_curriculum
    transaction_cost,    \* active rate: self.transaction_cost(_rate)
    slippage,            \* active rate: self.slippage(_rate)
    coefs,               \* reward-shaping coefficients of the instance
    current_step,
    position,            \* 0 flat, 1 long, -1 short
    entry_price,
    holding_days,
    returns,             \* self.returns: net returns of the episode
    unrealized_profit,
    info,                \* info dict returned by the last reset/step
    reward,              \* reward returned by the last step
    terminated,          \* terminated flag returned by the last step
    raised,              \* "none" | "KeyError": outcome of the last call
    np_random,           \* state of the process-wide generator np.random
    \* a second CrudeTradingEnv instance in the same process, and the run of
    \* the first instance alone
    other_step,          \* current_step of the second instance
    solo_random,         \* np.random as it is when the first runs alone
    solo_start,          \* episode start the first gets when run alone
    \* evaluate_rl_agent.backtest
    eval_pc,             \* "idle" | "loop" | "metrics" | "done" | "failed"
    history,             \* the ledger: one record per step of the loop
    df,                  \* equity and drawdown columns of the ledger frame
    summary,             \* the summary record
    \* backtest_trading: simulate_trading_strategy, calculate_trading_metrics
    rule_pc,             \* "idle" | "loop" | "closed" | "done" | "reported"
    actual,              \* df["actual"], row -> price
    prediction,          \* df["prediction"], row -> predicted price
    bt_transaction_cost, \* the transaction_cost argument
    bt_i,                \* loop index i
    bt_position,         \* local `position`: barrels held
    cash,                \* local `cash`
    results,             \* local `results`: the records appended so far
    results_df,          \* the frame simulate_trading_strategy returns
    metrics,             \* the dict calculate_trading_metrics returns
    bnh_metrics,         \* the dict calculate_buy_and_hold returns
    \* backtest_accuracy: calculate_accuracy_metrics, run_accuracy_backtest
    acc_pc,              \* "idle" | "loaded" | "measured" | "returned"
    acc_df,              \* the frame of aligned (prediction, actual) pairs
    acc_metrics,         \* the dict calculate_accuracy_metrics returns
    acc_return           \* what run_accuracy_backtest returns

envVars == <<env, close_price, rates, use_cost_curriculum, transaction_cost,
             slippage, coefs, current_step, position, entry_price,
             holding_days, returns, unrealized_profit, info, reward,
             terminated, raised, np_random>>

pairVars == <<other_step, solo_random, solo_start>>

evalVars == <<eval_pc, history, df, summary>>

ruleVars == <<rule_pc, actual, prediction, bt_transaction_cost, bt_i,
              bt_position, cash, results, results_df, metrics, bnh_metrics>>

accVars == <<acc_pc, acc_df, acc_metrics, acc_return>>

vars == <<envVars, evalVars, ruleVars, accVars, pairVars>>

(* -------------------------- construction ------------------------------- *)
\* self.start_index: window_size for the rolling-window environment; the
\* basic environment is constructed with start_index = window
start_index == window

\* self.end_index = len(self.df) - 1
end_index == NumRows - 1

\* the empty info dict
EmptyInfo == [k \in {} |-> 0]

\* cost rates RollingWindowMomentumEnv is constructed with: the values the
\* training and evaluation scripts pass, or every rate 0
RWRates == { [base_tx |-> RW_base_transaction_cost,
              base_slip |-> RW_base_slippage,
              train_tx |-> RW_train_transaction_cost,
              train_slip |-> RW_train_slippage],
             [base_tx |-> 0, base_slip |-> 0, train_tx |-> 0, train_slip |-> 0] }

\* cost rates of CrudeTradingEnv, fixed by its constructor
CrudeRates == [base_tx |-> base_transaction_cost,
               base_slip |-> base_slippage,
               train_tx |-> train_transaction_cost,
               train_slip |-> train_slippage]

\* active (transaction cost, slippage) pair for a curriculum flag
ActiveCosts(r, flag) ==
    IF flag THEN <<r.train_tx, r.train_slip>> ELSE <<r.base_tx, r.base_slip>>

\* shaping coefficients an instance may be constructed with: all disabled,
\* or the values the training and evaluation scripts pass
RWCoefs == { [momentum_coef |-> 0, vol_penalty |-> 0, xgb_align_coef |-> 0,
              holding_reward_coef |-> 0, xgb_alignment_bonus |-> 0],
             [momentum_coef |-> RW_momentum_coef, vol_penalty |-> RW_vol_penalty,
              xgb_align_coef |-> RW_xgb_align_coef,
              holding_reward_coef |-> 0, xgb_alignment_bonus |-> 0] }

CrudeCoefs == { [momentum_coef |-> 0, vol_penalty |-> 0, xgb_align_coef |-> 0,
                 holding_reward_coef |-> 0, xgb_alignment_bonus |-> 0],
                [momentum_coef |-> 0, vol_penalty |-> 0, xgb_align_coef |-> 0,
                 holding_reward_coef |-> 2000, xgb_alignment_bonus |-> 2000] }

\* number of states of the model of the np.random generator
RngPeriod == 2

\* states of np.random
RngStates == 0..(RngPeriod - 1)

\* the seed argument of reset: None (the empty tuple), or a seed
SeedArgs == {<<>>} \cup {<<sd>> : sd \in RngStates}

\* no second instance is constructed
PairIdle ==
    /\ other_step = 0
    /\ solo_random = 0
    /\ solo_start = 0

\* state variables as __init__ and reset leave them
FreshState ==
    /\ position = 0
    /\ entry_price = 0
    /\ holding_days = 0
    /\ returns = <<>>
    /\ unrealized_profit = 0

\* RollingWindowMomentumEnv.__init__
RWInit ==
    /\ env = "rolling"
    /\ close_price \in [Rows -> Prices]
    /\ \A r \in Rows : r < window => close_price[r] = 1
    /\ rates \in RWRates
    /\ use_cost_curriculum \in BOOLEAN
    /\ transaction_cost = ActiveCosts(rates, use_cost_curriculum)[1]
    /\ slippage = ActiveCosts(rates, use_cost_curriculum)[2]
    /\ coefs \in RWCoefs
    /\ current_step = window
    /\ FreshState
    /\ np_random = 0

\* CrudeTradingEnv.__init__ (reward_mode = "net")
CrudeInit ==
    /\ env = "crude"
    /\ close_price \in [Rows -> Prices]
    /\ \A r \in Rows : r < window => close_price[r] = 1
    /\ rates = CrudeRates
    /\ use_cost_curriculum \in BOOLEAN
    /\ transaction_cost = ActiveCosts(rates, use_cost_curriculum)[1]
    /\ slippage = ActiveCosts(rates, use_cost_curriculum)[2]
    /\ coefs \in CrudeCoefs
    /\ current_step = window
    /\ FreshState
    /\ np_random = 0

\* no evaluation is running
EvalIdle ==
    /\ eval_pc = "idle"
    /\ history = <<>>
    /\ df = EmptyInfo
    /\ summary = EmptyInfo

\* no rule-replay backtest is running
RuleIdle ==
    /\ rule_pc = "idle"
    /\ actual = EmptyInfo
    /\ prediction = EmptyInfo
    /\ bt_transaction_cost = 0
    /\ bt_i = 0
    /\ bt_position = 0
    /\ cash = 0
    /\ results = <<>>
    /\ results_df = <<>>
    /\ metrics = EmptyInfo
    /\ bnh_metrics = EmptyInfo

\* no simulation instance takes part
EnvAbsent ==
    /\ env = "none"
    /\ close_price = EmptyInfo
    /\ rates = EmptyInfo
    /\ use_cost_curriculum = FALSE
    /\ transaction_cost = 0
    /\ slippage = 0
    /\ coefs = EmptyInfo
    /\ current_step = 0
    /\ FreshState
    /\ info = EmptyInfo
    /\ reward = 0
    /\ terminated = FALSE
    /\ raised = "none"
    /\ np_random = 0
    /\ PairIdle

\* no accuracy backtest is running
AccIdle ==
    /\ acc_pc = "idle"
    /\ acc_df = <<>>
    /\ acc_metrics = EmptyInfo
    /\ acc_return = "unset"

Init ==
    /\ RWInit \/ CrudeInit
    /\ info = EmptyInfo
    /\ reward = 0
    /\ terminated = FALSE
    /\ raised = "none"
    /\ EvalIdle
    /\ RuleIdle
    /\ AccIdle
    /\ PairIdle

(* ------------------------- feature columns ----------------------------- *)
\* Rows of <<df["momentum_7"], df["volatility_30"],
\* df["xgb_predicted_return"]>>; xgb_trend is the sign of the last and
\* xgb_strength its magnitude.  A row's feature values are read only by the
\* step that arrives at the row, so they are drawn when they are read.
FeatureRows == { <<One - 2000, 400, -200>>,
                 <<One + 2000, 400, 200>>,
                 <<One + 2000, 0, 0>> }

\* values of df["xgb_predicted_return"]
XgbReturns == {f[3] : f \in FeatureRows}

(* --------------------- RollingWindowMomentumEnv ------------------------ *)
\* RWLegalAction with the comparison off by one (<= for <)
RWLegalAction_OffByOne(action) ==
    IF position # 0 /\ holding_days <= RW_min_holding_days /\ action \in {1, 2}
    THEN 0 ELSE action

\* minimum-hold legalization of the requested action
RWLegalAction(action) ==
    IF position # 0 /\ holding_days < RW_min_holding_days /\ action \in {1, 2}
    THEN 0 ELSE action

\* whether the (legalized) action opens or flips a position
WillTrade(act) ==
    \/ act = 1 /\ position \in {0, -1}
    \/ act = 2 /\ position \in {0, 1}

\* NextPosition where LONG is taken only from FLAT, never from SHORT
NextPosition_LongOnlyFromFlat(act) ==
    IF act = 1 /\ position = 0 THEN 1
    ELSE IF act = 2 /\ position \in {0, 1} THEN -1
    ELSE position

\* NextPosition where the opposite side closes the position to FLAT
\* instead of flipping it
NextPosition_OppositeCloses(act) ==
    IF act = 1 THEN (IF position = 0 THEN 1 ELSE IF position = -1 THEN 0 ELSE 1)
    ELSE IF act = 2 THEN (IF position = 0 THEN -1 ELSE IF position = 1 THEN 0 ELSE -1)
    ELSE position

\* the position after the (legalized) action
NextPosition(act) ==
    IF act = 1 /\ position \in {0, -1} THEN 1
    ELSE IF act = 2 /\ position \in {0, 1} THEN -1
    ELSE position

\* raw return of the elapsed bar for a position
RawReturn(pos, prev_price, cur_price) ==
    IF pos = 1 THEN Quot((cur_price - prev_price) * One, prev_price)
    ELSE IF pos = -1 THEN Quot((prev_price - cur_price) * One, prev_price)
    ELSE 0

\* RWNetReturn with the slippage left out
RWNetReturn_NoSlippage(raw_rtn, txn_cost, slippage_cost) ==
    raw_rtn - txn_cost

\* net return of RollingWindowMomentumEnv.step
RWNetReturn(raw_rtn, txn_cost, slippage_cost) ==
    raw_rtn - txn_cost - slippage_cost

\* Unrealized with the side of the position ignored
Unrealized_SideBlind(pos, entry, cur_price) ==
    IF pos # 0 THEN cur_price - entry ELSE 0

\* unrealized profit of a position at a price
Unrealized(pos, entry, cur_price) ==
    IF pos = 1 THEN cur_price - entry
    ELSE IF pos = -1 THEN entry - cur_price
    ELSE 0

\* RWHoldingDays counting every bar, held or not
RWHoldingDays_EveryBar(pos, held) == held + 1

\* holding_days after the bar has elapsed, RollingWindowMomentumEnv.step
RWHoldingDays(pos, held) == IF pos # 0 THEN held + 1 ELSE 0

\* holding_days after the bar has elapsed, CrudeTradingEnv.step
CrudeHoldingDays(pos, held) == IF pos # 0 THEN held + 1 ELSE held

\* RWReward with the forecast-alignment bonus not scaled by its coefficient
RWReward_UnscaledAlign(net_rtn, pos, momentum, vol, xgb_ret) ==
    LET momentum_adj == momentum - One
        xgb_trend == Sign(xgb_ret)
        xgb_strength == Abs(xgb_ret)
    IN  net_rtn
        + FMul(coefs.momentum_coef, momentum_adj) * pos
        - FMul(coefs.vol_penalty, vol) * (IF pos # 0 THEN 1 ELSE 0)
        + (IF pos # 0 /\ xgb_trend # 0 /\ pos = xgb_trend
           THEN xgb_strength ELSE 0)

\* reward composed by RollingWindowMomentumEnv.step
RWReward(net_rtn, pos, momentum, vol, xgb_ret) ==
    LET momentum_adj == momentum - One
        xgb_trend == Sign(xgb_ret)
        xgb_strength == Abs(xgb_ret)
    IN  net_rtn
        + FMul(coefs.momentum_coef, momentum_adj) * pos
        - FMul(coefs.vol_penalty, vol) * (IF pos # 0 THEN 1 ELSE 0)
        + (IF pos # 0 /\ xgb_trend # 0 /\ pos = xgb_trend
           THEN FMul(coefs.xgb_align_coef, xgb_strength) ELSE 0)

\* RWDone signalling the end one step late
RWDone_Late(step) == step > end_index

\* done = self.current_step >= self.end_index
RWDone(step) == step >= end_index

\* RollingWindowMomentumEnv.step(action): everything but the reward
RWApply(action) ==
    /\ env = "rolling"
    /\ IF current_step > end_index
       THEN \* df.loc[current_step] of the first line raises
            /\ raised' = "KeyError"
            /\ UNCHANGED <<current_step, position, entry_price, holding_days,
                           returns, unrealized_profit, info, terminated>>
       ELSE
         LET prev_price == close_price[current_step]
             act == RWLegalAction(action)
             will_trade == WillTrade(act)
             pos == NextPosition(act)
             entry == IF will_trade THEN prev_price ELSE entry_price
             held == IF will_trade THEN 0 ELSE holding_days
         IN  /\ position' = pos
             /\ entry_price' = entry
             /\ current_step' = current_step + 1
             /\ IF current_step + 1 > end_index
                THEN \* df.loc[current_step] after the increment raises
                     /\ raised' = "KeyError"
                     /\ holding_days' = held
                     /\ UNCHANGED <<returns, unrealized_profit, info,
                                    terminated>>
                ELSE
                  LET cur_price == close_price[current_step + 1]
                      raw_rtn == RawReturn(pos, prev_price, cur_price)
                      txn_cost == IF will_trade THEN transaction_cost ELSE 0
                      slippage_cost == IF will_trade THEN slippage ELSE 0
                      net_rtn == RWNetReturn(raw_rtn, txn_cost, slippage_cost)
                      unreal == Unrealized(pos, entry, cur_price)
                  IN  /\ raised' = "none"
                      /\ returns' = Append(returns, net_rtn)
                      /\ holding_days' = RWHoldingDays(pos, held)
                      /\ unrealized_profit' = unreal
                      /\ terminated' = RWDone(current_step + 1)
                      /\ info' = [step |-> current_step + 1,
                                  position |-> pos,
                                  net_return |-> net_rtn,
                                  raw_return |-> raw_rtn,
                                  txn_cost |-> txn_cost,
                                  slippage |-> slippage_cost,
                                  unrealized_profit |-> unreal]
    /\ UNCHANGED <<env, np_random, close_price, rates, use_cost_curriculum, transaction_cost,
                   slippage, coefs>>

\* RollingWindowMomentumEnv.step(action), with the feature values of the
\* row it arrives at
RWStep(action, momentum, vol, xgb_ret) ==
    /\ RWApply(action)
    /\ reward' = IF raised' = "none"
                 THEN RWReward(info'.net_return, position', momentum, vol,
                               xgb_ret)
                 ELSE reward

\* set_cost_curriculum that updates the transaction cost only
SetCostCurriculum_KeepsSlippage(use_curriculum) ==
    /\ env = "rolling"
    /\ use_cost_curriculum' = use_curriculum
    /\ transaction_cost' = ActiveCosts(rates, use_curriculum)[1]
    /\ raised' = "none"
    /\ UNCHANGED <<env, np_random, close_price, rates, coefs, current_step, position,
                   entry_price, holding_days, returns, unrealized_profit,
                   info, reward, terminated, slippage>>

\* RollingWindowMomentumEnv.set_cost_curriculum(use_curriculum)
SetCostCurriculum(use_curriculum) ==
    /\ env = "rolling"
    /\ use_cost_curriculum' = use_curriculum
    /\ transaction_cost' = ActiveCosts(rates, use_curriculum)[1]
    /\ slippage' = ActiveCosts(rates, use_curriculum)[2]
    /\ raised' = "none"
    /\ UNCHANGED <<env, np_random, close_price, rates, coefs, current_step, position,
                   entry_price, holding_days, returns, unrealized_profit,
                   info, reward, terminated>>

\* RWReset with holding_days left as the previous episode had it
RWReset_KeepsHoldingDays ==
    /\ env = "rolling"
    /\ current_step' = start_index
    /\ position' = 0
    /\ entry_price' = 0
    /\ returns' = <<>>
    /\ unrealized_profit' = 0
    /\ info' = [price |-> close_price[start_index], position |-> 0]
    /\ raised' = "none"
    /\ UNCHANGED <<env, np_random, close_price, rates, use_cost_curriculum, transaction_cost,
                   slippage, coefs, reward, terminated, holding_days>>

\* RollingWindowMomentumEnv.reset()
RWReset ==
    /\ env = "rolling"
    /\ current_step' = start_index
    /\ position' = 0
    /\ entry_price' = 0
    /\ holding_days' = 0
    /\ returns' = <<>>
    /\ unrealized_profit' = 0
    /\ info' = [price |-> close_price[start_index], position |-> 0]
    /\ raised' = "none"
    /\ UNCHANGED <<env, np_random, close_price, rates, use_cost_curriculum, transaction_cost,
                   slippage, coefs, reward, terminated>>

(* --------------------------- CrudeTradingEnv --------------------------- *)
\* CrudeTradingEnv._calculate_return: <<net, raw, txn_cost, slippage>> for
\* the position held after the action
CalculateReturn(pos, prev_price, cur_price, action) ==
    LET rtn == RawReturn(pos, prev_price, cur_price)
        slippage_cost == slippage
        txn_cost == IF action \in {1, 2} THEN transaction_cost ELSE 0
        net_rtn == rtn - txn_cost - slippage_cost
    IN  <<net_rtn, rtn, txn_cost, slippage_cost>>

\* CrudeTradingEnv._calculate_reward with reward_mode = "net"
CalculateReward(net_rtn, raw_rtn, pos, held, xgb_ret) ==
    LET xgb_trend == Sign(xgb_ret)
        xgb_strength == Abs(xgb_ret)
        holding_bonus ==
            IF /\ coefs.holding_reward_coef # 0
               /\ pos # 0
               /\ held >= CR_min_trade_hold
               /\ \/ pos = 1 /\ raw_rtn > 0
                  \/ pos = -1 /\ raw_rtn < 0
            THEN FMul(coefs.holding_reward_coef, Abs(raw_rtn)) ELSE 0
        align_bonus ==
            IF /\ coefs.xgb_alignment_bonus # 0
               /\ pos # 0 /\ xgb_trend # 0 /\ pos = xgb_trend
            THEN FMul(coefs.xgb_alignment_bonus, xgb_strength) ELSE 0
    IN  net_rtn + holding_bonus + align_bonus

\* CrudeTradingEnv.step(action): everything but the reward
CrudeApply(action) ==
    /\ env = "crude"
    /\ raised' = "none"
    /\ IF current_step >= end_index
       THEN /\ info' = [msg |-> "end of data"]
            /\ terminated' = TRUE
            /\ UNCHANGED <<current_step, position, entry_price, holding_days,
                           returns, unrealized_profit>>
       ELSE
         LET prev_price == close_price[current_step]
             will_trade == WillTrade(action)
             pos == NextPosition(action)
             entry == IF will_trade THEN prev_price ELSE entry_price
             held0 == IF will_trade THEN 0 ELSE holding_days
             cur_price == close_price[current_step + 1]
             r == CalculateReturn(pos, prev_price, cur_price, action)
             unreal == Unrealized(pos, entry, cur_price)
             held == CrudeHoldingDays(pos, held0)
         IN  /\ position' = pos
             /\ entry_price' = entry
             /\ current_step' = current_step + 1
             /\ returns' = Append(returns, r[1])
             /\ unrealized_profit' = unreal
             /\ holding_days' = held
             /\ terminated' = (current_step + 1 >= end_index)
             /\ info' = [step |-> current_step + 1,
                         position |-> pos,
                         entry_price |-> entry,
                         net_return |-> r[1],
                         raw_return |-> r[2],
                         txn_cost |-> r[3],
                         slippage |-> r[4],
                         unrealized_profit |-> unreal]
    /\ UNCHANGED <<env, np_random, close_price, rates, use_cost_curriculum, transaction_cost,
                   slippage, coefs>>

\* CrudeTradingEnv.step(action), with the forecast of the row it arrives at
CrudeStep(action, xgb_ret) ==
    /\ CrudeApply(action)
    /\ reward' = IF current_step >= end_index
                 THEN 0
                 ELSE CalculateReward(info'.net_return, info'.raw_return,
                                      position', holding_days', xgb_ret)

\* first index a random start may not take
RandomStartHigh ==
    IF start_index + 1 > end_index - RandomStartMargin
    THEN start_index + 1 ELSE end_index - RandomStartMargin

\* np.random.randint(low, high) in generator state g: <<value, next state>>;
\* a range of one value is returned without a draw
RandInt(g, low, high) ==
    IF high - low = 1 THEN <<low, g>>
    ELSE <<low + (g % (high - low)), (g + 1) % RngPeriod>>

\* the start of the episode and the generator after a reset called in
\* generator state g: np.random.seed(seed) when a seed is given, then one
\* np.random.randint for a random start
ResetDraw(g, seed, random_start) ==
    LET seeded == IF seed # <<>> THEN seed[1] % RngPeriod ELSE g
    IN  IF random_start
        THEN RandInt(seeded, start_index, RandomStartHigh)
        ELSE <<start_index, seeded>>

\* CrudeTradingEnv.reset(seed = seed, options = {"random_start": random_start})
CrudeReset(seed, random_start) ==
    /\ env = "crude"
    /\ current_step' = ResetDraw(np_random, seed, random_start)[1]
    /\ np_random' = ResetDraw(np_random, seed, random_start)[2]
    /\ position' = 0
    /\ entry_price' = 0
    /\ holding_days' = 0
    /\ returns' = <<>>
    /\ unrealized_profit' = 0
    /\ info' = EmptyInfo
    /\ raised' = "none"
    /\ UNCHANGED <<env, close_price, rates, use_cost_curriculum, transaction_cost,
                   slippage, coefs, reward, terminated>>

(* --------------------------- specification ----------------------------- *)
\* a step call on a simulation instance
Step ==
    /\ \/ \E a \in ActionValues, f \in FeatureRows :
            RWStep(a, f[1], f[2], f[3])
       \/ \E a \in ActionValues, x \in XgbReturns : CrudeStep(a, x)
    /\ UNCHANGED <<evalVars, ruleVars, accVars, pairVars>>

\* a reset call on a simulation instance, without a seed
Reset ==
    /\ \/ RWReset
       \/ \E rs \in BOOLEAN : CrudeReset(<<>>, rs)
    /\ UNCHANGED <<evalVars, ruleVars, accVars, pairVars>>

\* a set_cost_curriculum call on a simulation instance
CostSwitch ==
    /\ \E f \in BOOLEAN : SetCostCurriculum(f)
    /\ UNCHANGED <<evalVars, ruleVars, accVars, pairVars>>

Next == Step \/ Reset \/ CostSwitch

Spec == Init /\ [][Next]_vars

(* ------------------- evaluate_rl_agent.backtest ------------------------ *)
\* actions a trained policy returns: model.predict over Discrete(3)
PolicyActions == {0, 1, 2}

\* not-a-number and minus infinity of a float column; num(v) is a number
NaN == [kind |-> "nan", v |-> 0]
NegInf == [kind |-> "ninf", v |-> 0]
num(v) == [kind |-> "num", v |-> v]

RECURSIVE CumProd_Sum(_)
\* (1 + s).cumsum() in place of the cumulative product
CumProd_Sum(s) ==
    IF Len(s) = 0 THEN <<>>
    ELSE IF Len(s) = 1 THEN <<One + s[1]>>
    ELSE LET p == CumProd_Sum(SubSeq(s, 1, Len(s) - 1))
         IN  Append(p, p[Len(p)] + One + s[Len(s)])

RECURSIVE CumProd(_)
\* (1 + s).cumprod() of a column of returns
CumProd(s) ==
    IF Len(s) = 0 THEN <<>>
    ELSE IF Len(s) = 1 THEN <<One + s[1]>>
    ELSE LET p == CumProd(SubSeq(s, 1, Len(s) - 1))
         IN  Append(p, FMul(p[Len(p)], One + s[Len(s)]))

RECURSIVE CumMax(_)
\* s.cummax()
CumMax(s) ==
    IF Len(s) = 0 THEN <<>>
    ELSE IF Len(s) = 1 THEN s
    ELSE LET m == CumMax(SubSeq(s, 1, Len(s) - 1))
         IN  Append(m, IF s[Len(s)] > m[Len(m)] THEN s[Len(s)] ELSE m[Len(m)])

\* (equity - cummax) / cummax, element by element
DrawdownColumn(equity, cummax) ==
    [i \in 1..Len(equity) |->
        IF cummax[i] = 0
        THEN IF equity[i] = 0 THEN NaN ELSE NegInf
        ELSE num(FDiv(equity[i] - cummax[i], cummax[i]))]

RECURSIVE ColumnMin(_)
\* s.min() of a float column: NaN is skipped; NaN when nothing is left
ColumnMin(s) ==
    IF Len(s) = 0 THEN NaN
    ELSE LET rest == ColumnMin(SubSeq(s, 1, Len(s) - 1))
             x == s[Len(s)]
         IN  IF x.kind = "nan" THEN rest
             ELSE IF rest.kind = "nan" THEN x
             ELSE IF x.kind = "ninf" \/ rest.kind = "ninf" THEN NegInf
             ELSE IF x.v < rest.v THEN x ELSE rest

RECURSIVE ColumnSum(_)
\* s.sum()
ColumnSum(s) ==
    IF Len(s) = 0 THEN 0 ELSE ColumnSum(SubSeq(s, 1, Len(s) - 1)) + s[Len(s)]

\* one column of the ledger
Column(h, field) == [i \in 1..Len(h) |-> h[i][field]]

\* the constructor default of use_cost_curriculum in place of the argument
EvalUseCostCurriculum_Default == TRUE

\* arguments backtest() constructs its environment with
EvalUseCostCurriculum == FALSE

EvalRates == [base_tx |-> RW_base_transaction_cost,
              base_slip |-> RW_base_slippage,
              train_tx |-> RW_train_transaction_cost,
              train_slip |-> RW_train_slippage]

EvalCoefs == [momentum_coef |-> RW_momentum_coef, vol_penalty |-> RW_vol_penalty,
              xgb_align_coef |-> RW_xgb_align_coef,
              holding_reward_coef |-> 0, xgb_alignment_bonus |-> 0]

\* backtest(): the environment is constructed and reset, the ledger is empty
EvalInit ==
    /\ env = "rolling"
    /\ close_price \in [Rows -> Prices]
    /\ \A r \in Rows : r < window => close_price[r] = 1
    /\ rates = EvalRates
    /\ use_cost_curriculum = EvalUseCostCurriculum
    /\ transaction_cost = ActiveCosts(rates, use_cost_curriculum)[1]
    /\ slippage = ActiveCosts(rates, use_cost_curriculum)[2]
    /\ coefs = EvalCoefs
    /\ current_step = window
    /\ FreshState
    /\ np_random = 0
    /\ PairIdle
    /\ info = [price |-> close_price[window], position |-> 0]
    /\ reward = 0
    /\ terminated = FALSE
    /\ raised = "none"
    /\ eval_pc = "loop"
    /\ history = <<>>
    /\ df = EmptyInfo
    /\ summary = EmptyInfo
    /\ RuleIdle
    /\ AccIdle

\* the ledger record of one iteration of the loop
LedgerRecord(action, inf) ==
    [step |-> inf.step,
     price |-> close_price[inf.step],
     action |-> action,
     position |-> inf.position,
     raw_return |-> inf.raw_return,
     net_return |-> inf.net_return,
     txn_cost |-> inf.txn_cost,
     slippage |-> inf.slippage,
     unrealized_profit |-> inf.unrealized_profit]

\* one iteration of `while not done`: predict, step, append to the ledger
EvalStep ==
    /\ eval_pc = "loop"
    /\ \E action \in PolicyActions, f \in FeatureRows :
         /\ RWStep(action, f[1], f[2], f[3])
         /\ IF raised' = "KeyError"
            THEN /\ eval_pc' = "failed"
                 /\ UNCHANGED history
            ELSE /\ history' = Append(history, LedgerRecord(action, info'))
                 /\ eval_pc' = IF terminated' THEN "metrics" ELSE "loop"
    /\ UNCHANGED <<df, summary, ruleVars, accVars, pairVars>>

\* the equity and drawdown columns and the summary, after the loop
EvalMetrics ==
    /\ eval_pc = "metrics"
    /\ Len(history) > 0
    /\ LET raw == Column(history, "raw_return")
           net == Column(history, "net_return")
           cost == [i \in 1..Len(history) |->
                      history[i].txn_cost + history[i].slippage]
           gross_equity == CumProd(raw)
           net_equity == CumProd(net)
           net_cummax == CumMax(net_equity)
           net_drawdown == DrawdownColumn(net_equity, net_cummax)
       IN  /\ df' = [gross_equity |-> gross_equity,
                     net_equity |-> net_equity,
                     net_cummax |-> net_cummax,
                     net_drawdown |-> net_drawdown]
           /\ summary' =
                [gross_total_return |-> gross_equity[Len(gross_equity)] - One,
                 net_total_return |-> net_equity[Len(net_equity)] - One,
                 net_max_drawdown |-> ColumnMin(net_drawdown),
                 avg_cost_per_step |-> Quot(ColumnSum(cost), Len(cost)),
                 total_costs |-> ColumnSum(cost)]
    /\ eval_pc' = "done"
    /\ UNCHANGED <<envVars, history, ruleVars, accVars, pairVars>>

\* model.predict raises inside the loop: nothing catches it, backtest()
\* is left by the exception and returns neither frame nor summary.  history
\* keeps the records appended before the failure.
EvalPolicyRaises ==
    /\ eval_pc = "loop"
    /\ eval_pc' = "failed"
    /\ UNCHANGED <<envVars, history, df, summary, ruleVars, accVars, pairVars>>

EvalNext == EvalStep \/ EvalMetrics

SpecEval == EvalInit /\ [][EvalNext]_vars

\* policy replay with a policy that may raise
EvalFailNext == EvalStep \/ EvalMetrics \/ EvalPolicyRaises

SpecEvalFail == EvalInit /\ [][EvalFailNext]_vars

(* ----------------- backtest_trading: rule replay ----------------------- *)
\* Money and barrels are fixed-point numbers like returns.
RuleIdx == 0..(RuleRows - 1)

\* the transaction_cost argument: 0, or the default 0.001
TxnCosts == {0, 20}

\* values of df["prediction"]
Predictions == 1..MaxPrice

\* simulate_trading_strategy(df, initial_capital, transaction_cost): entry
RuleInit ==
    /\ rule_pc = "loop"
    /\ actual \in [RuleIdx -> Prices]
    /\ prediction \in [RuleIdx -> Predictions]
    /\ bt_transaction_cost \in TxnCosts
    /\ bt_i = 0
    /\ bt_position = 0
    /\ cash = initial_capital * One
    /\ results = <<>>
    /\ results_df = <<>>
    /\ metrics = EmptyInfo
    /\ bnh_metrics = EmptyInfo
    \* no simulation instance takes part
    /\ env = "none"
    /\ close_price = EmptyInfo
    /\ rates = EmptyInfo
    /\ use_cost_curriculum = FALSE
    /\ transaction_cost = 0
    /\ slippage = 0
    /\ coefs = EmptyInfo
    /\ current_step = 0
    /\ FreshState
    /\ info = EmptyInfo
    /\ reward = 0
    /\ terminated = FALSE
    /\ raised = "none"
    /\ np_random = 0
    /\ PairIdle
    /\ EvalIdle
    /\ AccIdle

\* a NaN in df["actual"] or df["prediction"]: a missing value
NaNValue == -1

\* TradingSignal with a missing forecast read as 0.0
TradingSignal_MissingAsZero(pred, current_price, pos, csh, tc) ==
    LET p == IF pred = NaNValue THEN 0 ELSE pred
    IN  IF current_price = NaNValue
        THEN <<"HOLD", pos, csh>>
        ELSE IF p > current_price /\ pos = 0
        THEN <<"BUY", FDiv(csh, current_price * (One + tc)), 0>>
        ELSE IF p < current_price /\ pos > 0
        THEN <<"SELL", 0, FMul(pos * current_price, One - tc)>>
        ELSE <<"HOLD", pos, csh>>

\* TradingSignal buying on every forecast above the price, invested or not
TradingSignal_BuyWhenInvested(pred, current_price, pos, csh, tc) ==
    IF pred = NaNValue \/ current_price = NaNValue
    THEN <<"HOLD", pos, csh>>
    ELSE IF pred > current_price
    THEN <<"BUY", FDiv(csh, current_price * (One + tc)), 0>>
    ELSE IF pred < current_price /\ pos > 0
    THEN <<"SELL", 0, FMul(pos * current_price, One - tc)>>
    ELSE <<"HOLD", pos, csh>>

\* the trading signal of one bar: <<action, position, cash>>; both
\* comparisons are False when the forecast or the price is NaN
TradingSignal(pred, current_price, pos, csh, tc) ==
    IF pred = NaNValue \/ current_price = NaNValue
    THEN <<"HOLD", pos, csh>>
    ELSE IF pred > current_price /\ pos = 0
    THEN <<"BUY", FDiv(csh, current_price * (One + tc)), 0>>
    ELSE IF pred < current_price /\ pos > 0
    THEN <<"SELL", 0, FMul(pos * current_price, One - tc)>>
    ELSE <<"HOLD", pos, csh>>

\* one iteration of `for i in range(len(df) - 1)`
SimulateStep ==
    /\ rule_pc = "loop"
    /\ bt_i < RuleRows - 1
    /\ LET current_price == actual[bt_i]
           sig == TradingSignal(prediction[bt_i], current_price, bt_position,
                                cash, bt_transaction_cost)
           \* arithmetic on a NaN price gives NaN
           portfolio_value == IF current_price = NaNValue THEN NaN
                              ELSE sig[3] + sig[2] * current_price
       IN  /\ bt_position' = sig[2]
           /\ cash' = sig[3]
           /\ results' = Append(results,
                [date |-> bt_i,
                 price |-> current_price,
                 prediction |-> prediction[bt_i],
                 action |-> sig[1],
                 position |-> sig[2],
                 cash |-> sig[3],
                 portfolio_value |-> portfolio_value,
                 return_pct |->
                    IF current_price = NaNValue THEN NaN
                    ELSE FDiv(portfolio_value - initial_capital * One,
                              initial_capital * One) * 100])
    /\ bt_i' = bt_i + 1
    /\ UNCHANGED <<rule_pc, actual, prediction, bt_transaction_cost,
                   results_df, metrics, bnh_metrics, envVars, evalVars, accVars, pairVars>>

\* after the loop: close any open position, return DataFrame(results)
SimulateClose ==
    /\ rule_pc = "loop"
    /\ bt_i >= RuleRows - 1
    /\ IF bt_position > 0
       THEN /\ cash' = FMul(bt_position * actual[RuleRows - 1],
                            One - bt_transaction_cost)
            /\ bt_position' = 0
       ELSE UNCHANGED <<cash, bt_position>>
    /\ results_df' = results
    /\ rule_pc' = "closed"
    /\ UNCHANGED <<actual, prediction, bt_transaction_cost, bt_i, results,
                   metrics, bnh_metrics, envVars, evalVars, accVars, pairVars>>

\* results_df[col].pct_change(): NaN, then (x[i] - x[i-1]) / x[i-1]
PctChange(s) ==
    [k \in 1..Len(s) |->
        IF k = 1 THEN NaN
        ELSE IF s[k - 1] = 0 THEN NaN
        ELSE num(FDiv(s[k] - s[k - 1], s[k - 1]))]

\* the numbers of a float column, NaN dropped
Numbers(s) == SelectSeq(s, LAMBDA x : x.kind = "num")

\* the drawdown column of calculate_trading_metrics; the leading NaN of
\* daily_return is skipped by cumprod and cummax and stays NaN
RuleDrawdown(daily_return) ==
    LET rets == [k \in 1..Len(Numbers(daily_return)) |->
                    Numbers(daily_return)[k].v]
        cumulative_returns == CumProd(rets)
        running_max == CumMax(cumulative_returns)
    IN  <<NaN>> \o DrawdownColumn(cumulative_returns, running_max)

\* calculate_trading_metrics(results_df, initial_capital), without the
\* Sharpe ratio and the volatility, which need a square root
CalculateTradingMetrics ==
    /\ rule_pc = "closed"
    /\ Len(results_df) > 0
    /\ LET final_value == results_df[Len(results_df)].portfolio_value
           daily_return == PctChange(Column(results_df, "portfolio_value"))
           drawdown == RuleDrawdown(daily_return)
           dmin == ColumnMin(drawdown)
           IsTrade(r) == r.action \in {"BUY", "SELL"}
           IsWin(r) == r.action \in {"BUY", "SELL"} /\ r.return_pct > 0
           winning_trades == Len(SelectSeq(results_df, IsWin))
           total_trades == Len(SelectSeq(results_df, IsTrade)) \div 2
       IN  metrics' =
             [initial_capital |-> initial_capital * One,
              final_value |-> final_value,
              total_return_pct |-> FDiv(final_value - initial_capital * One,
                                        initial_capital * One) * 100,
              total_return_usd |-> final_value - initial_capital * One,
              max_drawdown_pct |-> IF dmin.kind = "num"
                                   THEN num(dmin.v * 100) ELSE dmin,
              total_trades |-> total_trades,
              win_rate |-> IF total_trades > 0
                           THEN Quot(winning_trades * 100 * One, total_trades)
                           ELSE 0]
    /\ rule_pc' = "done"
    /\ UNCHANGED <<actual, prediction, bt_transaction_cost, bt_i, bt_position,
                   cash, results, results_df, bnh_metrics, envVars, evalVars, accVars, pairVars>>

\* BuyAndHoldValue with the strategy's cost rate charged on the baseline
BuyAndHoldValue_NetOfCost(initial_price, final_price) ==
    LET barrels == FDiv(initial_capital * One, initial_price * One)
    IN  FMul(barrels * final_price, One - bt_transaction_cost)

\* final_value of calculate_buy_and_hold: barrels bought at the first
\* price, valued at the last
BuyAndHoldValue(initial_price, final_price) ==
    LET barrels == FDiv(initial_capital * One, initial_price * One)
    IN  barrels * final_price

\* calculate_buy_and_hold(df, initial_capital), called by
\* run_trading_backtest after calculate_trading_metrics
CalculateBuyAndHold ==
    /\ rule_pc = "done"
    /\ LET final_value == BuyAndHoldValue(actual[0], actual[RuleRows - 1])
       IN  bnh_metrics' =
             [initial_capital |-> initial_capital * One,
              final_value |-> final_value,
              total_return_pct |-> FDiv(final_value - initial_capital * One,
                                        initial_capital * One) * 100,
              total_return_usd |-> final_value - initial_capital * One]
    /\ rule_pc' = "reported"
    /\ UNCHANGED <<actual, prediction, bt_transaction_cost, bt_i, bt_position,
                   cash, results, results_df, metrics, envVars, evalVars, accVars, pairVars>>

\* simulate_trading_strategy entered with a frame that has one gap: at
\* one bar before the last either the price or the forecast is missing
GapInit ==
    /\ rule_pc = "loop"
    /\ \E g \in 0..(RuleRows - 2) :
          \/ /\ actual \in [RuleIdx -> Prices \cup {NaNValue}]
             /\ \A i \in RuleIdx : actual[i] = NaNValue <=> i = g
             /\ prediction \in [RuleIdx -> Predictions]
          \/ /\ actual \in [RuleIdx -> Prices]
             /\ prediction \in [RuleIdx -> Predictions \cup {NaNValue}]
             /\ \A i \in RuleIdx : prediction[i] = NaNValue <=> i = g
    \* the forecast of the last bar is never read
    /\ prediction[RuleRows - 1] = 1
    /\ bt_transaction_cost \in TxnCosts
    /\ bt_i = 0
    /\ bt_position = 0
    /\ cash = initial_capital * One
    /\ results = <<>>
    /\ results_df = <<>>
    /\ metrics = EmptyInfo
    /\ bnh_metrics = EmptyInfo
    /\ EnvAbsent
    /\ EvalIdle
    /\ AccIdle

GapNext == SimulateStep \/ SimulateClose

SpecGap == GapInit /\ [][GapNext]_vars

RuleNext ==
    \/ SimulateStep
    \/ SimulateClose
    \/ CalculateTradingMetrics
    \/ CalculateBuyAndHold

SpecRule == RuleInit /\ [][RuleNext]_vars

(* ---------------- backtest_accuracy: forecast accuracy ----------------- *)
\* rows of the aligned frame load_data returns: 0..MaxPairs
AccFrames ==
    UNION { [1..n -> [prediction : Predictions, actual : Prices]] :
              n \in 0..MaxPairs }

\* the frame of aligned pairs is loaded
AccInit ==
    /\ acc_pc = "loaded"
    /\ acc_df \in AccFrames
    /\ acc_metrics = EmptyInfo
    /\ acc_return = "unset"
    /\ EnvAbsent
    /\ EvalIdle
    /\ RuleIdle

RECURSIVE SqrtSearch(_, _, _)
\* the largest r in lo..hi with r * r <= n
SqrtSearch(n, lo, hi) ==
    IF lo >= hi THEN lo
    ELSE LET mid == (lo + hi + 1) \div 2
         IN  IF mid * mid <= n THEN SqrtSearch(n, mid, hi)
             ELSE SqrtSearch(n, lo, mid - 1)

\* np.sqrt of a whole number, truncated
ISqrt(n) == SqrtSearch(n, 0, 46340)

RECURSIVE ColumnMax(_)
\* s.max() of a column of numbers
ColumnMax(s) ==
    IF Len(s) = 1 THEN s[1]
    ELSE LET m == ColumnMax(SubSeq(s, 1, Len(s) - 1))
         IN  IF s[Len(s)] > m THEN s[Len(s)] ELSE m

\* s.mean() of a column of fixed-point numbers
ColumnMean(s) == Quot(ColumnSum(s), Len(s))

\* x.corr(y): Pearson correlation of two columns of whole numbers; NaN when
\* either column has no variance (also for a single row)
Correlation(x, y) ==
    LET n == Len(x)
        sx == ColumnSum(x)
        sy == ColumnSum(y)
        sxy == n * ColumnSum([i \in 1..n |-> x[i] * y[i]]) - sx * sy
        sxx == n * ColumnSum([i \in 1..n |-> x[i] * x[i]]) - sx * sx
        syy == n * ColumnSum([i \in 1..n |-> y[i] * y[i]]) - sy * sy
    IN  IF sxx = 0 \/ syy = 0 THEN NaN
        ELSE num(Quot(sxy * One, ISqrt(sxx * syy)))

\* np.abs(df['prediction'] - df['actual'])
AbsErrors(d) == [i \in 1..Len(d) |-> Abs(d[i].prediction - d[i].actual) * One]

\* calculate_accuracy_metrics(df)
AccuracyMetrics(d) ==
    IF Len(d) = 0 THEN EmptyInfo
    ELSE
      LET n == Len(d)
          abs_errors == AbsErrors(d)
          pct_errors == [i \in 1..n |->
                           FDiv(abs_errors[i], d[i].actual * One) * 100]
          sq_errors == [i \in 1..n |->
                          (d[i].prediction - d[i].actual)
                          * (d[i].prediction - d[i].actual) * One]
          \* a comparison with the NaN of shift(1) is False
          pred_direction == [i \in 1..n |->
              IF i > 1 /\ d[i].prediction > d[i - 1].actual THEN 1 ELSE 0]
          actual_direction == [i \in 1..n |->
              IF i > 1 /\ d[i].actual > d[i - 1].actual THEN 1 ELSE 0]
          agree == [i \in 1..n |->
              IF pred_direction[i] = actual_direction[i] THEN One ELSE 0]
      IN  [mae |-> ColumnMean(abs_errors),
           rmse |-> ISqrt(ColumnMean(sq_errors) * One),
           mape |-> ColumnMean(pct_errors),
           max_error |-> ColumnMax(abs_errors),
           directional_accuracy |-> ColumnMean(agree) * 100,
           total_predictions |-> n,
           avg_actual_price |->
               ColumnMean([i \in 1..n |-> d[i].actual * One]),
           avg_predicted_price |->
               ColumnMean([i \in 1..n |-> d[i].prediction * One]),
           correlation |->
               Correlation([i \in 1..n |-> d[i].prediction],
                           [i \in 1..n |-> d[i].actual])]

\* a call of calculate_accuracy_metrics on the loaded frame
CalculateAccuracyMetrics ==
    /\ acc_pc = "loaded"
    /\ acc_metrics' = AccuracyMetrics(acc_df)
    /\ acc_pc' = "measured"
    /\ UNCHANGED <<acc_df, acc_return, envVars, evalVars, ruleVars,
                   pairVars>>

\* run_accuracy_backtest: None for an empty frame, else (metrics, df) after
\* the report and the plots are written
RunAccuracyBacktest ==
    /\ acc_pc = "loaded"
    /\ IF Len(acc_df) = 0
       THEN /\ acc_return' = "None"
            /\ UNCHANGED acc_metrics
       ELSE /\ acc_metrics' = AccuracyMetrics(acc_df)
            /\ acc_return' = "metrics, df"
    /\ acc_pc' = "returned"
    /\ UNCHANGED <<acc_df, envVars, evalVars, ruleVars,
                   pairVars>>

AccNext == CalculateAccuracyMetrics \/ RunAccuracyBacktest

SpecAcc == AccInit /\ [][AccNext]_vars

(* ------------- two CrudeTradingEnv instances in one process ------------ *)
\* Both instances are constructed over the same frame, here one of constant
\* price.  Of the second
\* instance only current_step is kept.  solo_random and solo_start follow
\* the calls of the first instance alone: what np.random and the episode
\* start are when the second instance makes no call.
PairInit ==
    /\ env = "crude"
    /\ close_price = [r \in Rows |-> 1]
    /\ rates = CrudeRates
    /\ use_cost_curriculum = TRUE
    /\ transaction_cost = ActiveCosts(rates, use_cost_curriculum)[1]
    /\ slippage = ActiveCosts(rates, use_cost_curriculum)[2]
    /\ coefs = [momentum_coef |-> 0, vol_penalty |-> 0, xgb_align_coef |-> 0,
                holding_reward_coef |-> 0, xgb_alignment_bonus |-> 0]
    /\ current_step = window
    /\ FreshState
    /\ info = EmptyInfo
    /\ reward = 0
    /\ terminated = FALSE
    /\ raised = "none"
    /\ np_random \in RngStates
    /\ other_step = start_index
    /\ solo_random = np_random
    /\ solo_start = start_index
    /\ EvalIdle
    /\ RuleIdle
    /\ AccIdle

\* a step call on the first instance
PairStep ==
    /\ \E a \in PolicyActions : CrudeStep(a, 0)
    /\ UNCHANGED <<evalVars, ruleVars, accVars, pairVars>>

\* a reset call on the first instance
PairReset ==
    /\ \E seed \in SeedArgs, rs \in BOOLEAN :
         /\ CrudeReset(seed, rs)
         /\ solo_start' = ResetDraw(solo_random, seed, rs)[1]
         /\ solo_random' = ResetDraw(solo_random, seed, rs)[2]
    /\ UNCHANGED <<other_step, evalVars, ruleVars, accVars>>

\* a reset call on the second instance
OtherReset ==
    /\ \E seed \in SeedArgs, rs \in BOOLEAN :
         /\ other_step' = ResetDraw(np_random, seed, rs)[1]
         /\ np_random' = ResetDraw(np_random, seed, rs)[2]
    /\ UNCHANGED <<env, close_price, rates, use_cost_curriculum,
                   transaction_cost, slippage, coefs, current_step, position,
                   entry_price, holding_days, returns, unrealized_profit,
                   info, reward, terminated, raised, solo_random, solo_start,
                   evalVars, ruleVars, accVars>>

\* a step call on the second instance
OtherStep ==
    /\ other_step < end_index
    /\ other_step' = other_step + 1
    /\ UNCHANGED <<envVars, solo_random, solo_start, evalVars, ruleVars,
                   accVars>>

PairNext == PairStep \/ PairReset \/ OtherReset \/ OtherStep

SpecPair == PairInit /\ [][PairNext]_vars

(* ============================== claims ================================= *)
\* position before record k of the ledger (FLAT before the first)
LedgerPos(k) == IF k = 0 THEN 0 ELSE history[k].position

\* entry price implied by record k: price - position * unrealized_profit
LedgerEntry(k) ==
    history[k].price - history[k].position * history[k].unrealized_profit

\* action a requests the position opposite to pos
Opposite(a, pos) == (a = 1 /\ pos = -1) \/ (a = 2 /\ pos = 1)

\* record j opened or flipped a position and it was held up to record k - 1
HeldSince(j, k) ==
    /\ LedgerPos(j) # LedgerPos(j - 1)
    /\ \A n \in (j + 1)..(k - 1) : LedgerPos(n) = LedgerPos(j)

\* C1: minimum-hold enforcement (min_holding_days = 3).  In the ledger of a
\* policy replay, when a position was opened at one step, an action
\* requesting the opposite position on the next two steps leaves position
\* and entry price unchanged, and the same request on the third or any
\* later step of the holding flips the position, with the price of the bar
\* of the request as the new entry price.
C1_MinimumHold ==
    \A j \in 1..Len(history) : \A k \in (j + 1)..Len(history) :
        (HeldSince(j, k) /\ Opposite(history[k].action, LedgerPos(k - 1))) =>
            IF k - j < 3
            THEN /\ LedgerPos(k) = LedgerPos(k - 1)
                 /\ LedgerEntry(k) = LedgerEntry(k - 1)
            ELSE /\ LedgerPos(k) = -LedgerPos(k - 1)
                 /\ LedgerEntry(k) = history[k - 1].price

\* C1 witness: LONG opened at step 0, SHORT requested and ignored at steps
\* 1 and 2, SHORT requested and executed at step 3
C1_Witness ==
    /\ Len(history) >= 4
    /\ history[1].action = 1 /\ history[1].position = 1
    /\ history[2].action = 2 /\ history[2].position = 1
    /\ history[3].action = 2 /\ history[3].position = 1
    /\ history[4].action = 2 /\ history[4].position = -1

\* C2: end-of-series closure in rule replay.  Once the metrics are
\* computed, the final record of the returned ledger shows the position
\* closed (position 0) and the reported final_value is the cash the
\* strategy holds after liquidating at the final bar's price.
C2_EndOfSeriesClosure ==
    rule_pc \in {"done", "reported"} =>
        /\ results_df[Len(results_df)].position = 0
        /\ metrics.final_value = cash

\* a step call that ran to completion appended one net return
StepExecuted == Len(returns') = Len(returns) + 1

\* C3: cost accounting.  On every executed step of either environment the
\* reported net_return is raw_return - txn_cost - slippage of that step and
\* is the value appended to the return history; when both active cost rates
\* are 0 the net return equals the raw return.
C3_CostAccounting ==
    [][StepExecuted =>
         /\ info'.net_return =
              info'.raw_return - info'.txn_cost - info'.slippage
         /\ returns'[Len(returns')] = info'.net_return
         /\ (transaction_cost = 0 /\ slippage = 0) =>
              info'.net_return = info'.raw_return]_vars

\* C3 witness: a step that executed a trade, with a non-zero raw return and
\* non-zero costs
C3_Witness ==
    /\ "net_return" \in DOMAIN info
    /\ info.raw_return # 0
    /\ info.txn_cost > 0
    /\ info.slippage > 0

\* every shaping coefficient of the instance is 0
AllCoefsZero == \A c \in DOMAIN coefs : coefs[c] = 0

\* C4: reward reduction.  With every shaping coefficient 0 (and
\* reward_mode "net"), the reward a step returns equals the net return it
\* reports, in both environments.
C4_RewardReduction ==
    (AllCoefsZero /\ "net_return" \in DOMAIN info) =>
        reward = info.net_return

\* C4 witness: an unshaped instance has stepped while holding a position
\* and returned a non-zero reward
C4_Witness ==
    /\ AllCoefsZero
    /\ "net_return" \in DOMAIN info
    /\ info.position # 0
    /\ reward # 0

\* C5: position legality.  In every state reachable by reset and step calls
\* with any action values, position is FLAT, LONG or SHORT, and while FLAT
\* the unrealized profit and the holding counter are 0.
C5_PositionLegality ==
    /\ position \in {0, 1, -1}
    /\ position = 0 => (unrealized_profit = 0 /\ holding_days = 0)

\* C5 witness: the simulation stayed FLAT over two executed steps
C5_Witness ==
    /\ env \in {"rolling", "crude"}
    /\ position = 0
    /\ Len(returns) >= 2

\* a step call with action a
StepWith(a) == RWApply(a) \/ CrudeApply(a)

\* the minimum-hold constraint suppresses action a
Suppressed(a) ==
    /\ env = "rolling"
    /\ position # 0 /\ holding_days < RW_min_holding_days
    /\ a \in {1, 2}

\* the position action a requests
Target(a) == IF a = 1 THEN 1 ELSE -1

C7_EvaluationCosts ==
    \A k \in 1..Len(history) :
        /\ <<history[k].txn_cost, history[k].slippage>> \in
              {<<0, 0>>, <<RW_base_transaction_cost, RW_base_slippage>>}
        /\ <<history[k].txn_cost, history[k].slippage>> #
              <<RW_train_transaction_cost, RW_train_slippage>>

\* C7 witness: the ledger holds a trade charged at the base pair
C7_Witness ==
    \E k \in 1..Len(history) :
        /\ history[k].txn_cost = RW_base_transaction_cost
        /\ history[k].slippage = RW_base_slippage

\* C8: regime switching on a live simulation.  set_cost_curriculum(flag)
\* makes the active pair the training pair when flag is true and the base
\* pair when false and leaves current_step, position, entry_price,
\* holding_days, unrealized profit and the return history unchanged; the
\* active pair is always the pair of the flag last set, and every trade
\* executed is charged at the pair active when it is executed.
C8_RegimeSwitch ==
    [][/\ \A f \in BOOLEAN : SetCostCurriculum(f) =>
            /\ <<transaction_cost', slippage'>> =
                 IF f THEN <<rates.train_tx, rates.train_slip>>
                      ELSE <<rates.base_tx, rates.base_slip>>
            /\ UNCHANGED <<current_step, position, entry_price, holding_days,
                           unrealized_profit, returns>>
       /\ (env = "rolling" /\ StepExecuted /\ position' # position) =>
            /\ info'.txn_cost = transaction_cost
            /\ info'.slippage = slippage
       /\ env = "rolling" =>
            <<transaction_cost', slippage'>> =
               IF use_cost_curriculum'
               THEN <<rates.train_tx, rates.train_slip>>
               ELSE <<rates.base_tx, rates.base_slip>>]_vars

\* C8 witness: within one episode a position was opened at the training
\* pair, the regime was switched, and a flip was charged at the base pair
C8_Witness ==
    /\ env = "rolling"
    /\ rates.train_tx > 0
    /\ Len(returns) >= 4
    /\ close_price[start_index] = close_price[start_index + 1]
    /\ returns[1] = -(rates.train_tx + rates.train_slip)
    /\ use_cost_curriculum = FALSE
    /\ "txn_cost" \in DOMAIN info
    /\ info.txn_cost = rates.base_tx
    /\ info.slippage = rates.base_slip

\* C9: drawdown bound in the policy-replay evaluator.  Every element of
\* the net drawdown column that is a number is <= 0, and the reported
\* maximum drawdown is the minimum of the column.
C9_DrawdownBound ==
    eval_pc = "done" =>
        /\ \A k \in 1..Len(df.net_drawdown) :
              df.net_drawdown[k].kind = "num" => df.net_drawdown[k].v <= 0
        /\ summary.net_max_drawdown = ColumnMin(df.net_drawdown)

\* equity column e compounds the return column r of the ledger
Compounds(e, r) ==
    /\ Len(e) = Len(history)
    /\ e[1] = One + history[1][r]
    /\ \A k \in 2..Len(e) : e[k] = FMul(e[k - 1], One + history[k][r])

\* C10: equity consistency in the policy-replay evaluator.  net_equity
\* starts at 1 + net_return[0], each later element is the previous one
\* times 1 + net_return[i], and net_total_return is the last element
\* minus 1; likewise gross_equity over raw_return.
C10_EquityConsistency ==
    eval_pc = "done" =>
        /\ Compounds(df.net_equity, "net_return")
        /\ summary.net_total_return = df.net_equity[Len(history)] - One
        /\ Compounds(df.gross_equity, "raw_return")
        /\ summary.gross_total_return = df.gross_equity[Len(history)] - One

\* C10 witness: a finished evaluation whose ledger has at least three
\* records with non-zero net returns and a net equity that moved
C10_Witness ==
    /\ eval_pc = "done"
    /\ Len(history) >= 3
    /\ \A k \in 1..3 : history[k].net_return # 0
    /\ df.net_equity[3] # df.net_equity[2]
    /\ df.net_equity[2] # df.net_equity[1]

\* the buy-and-hold value of a first and a last price: a function of the
\* price series and the initial capital alone
BaselineOf(first_price, last_price) ==
    Quot(initial_capital * One, first_price) * last_price

\* C11: buy-and-hold independence.  The rule-replay backtest never changes
\* the price series, and the buy-and-hold final_value it reports is
\* initial_capital / first_price * last_price (the quotient truncated to
\* the resolution), whatever the transaction-cost rate, the prediction
\* series and the trades of the strategy.
C11_BuyAndHoldIndependence ==
    [][/\ rule_pc # "idle" => actual' = actual
       /\ rule_pc' = "reported" =>
            /\ bnh_metrics'.final_value =
                 BaselineOf(actual[0], actual[RuleRows - 1])
            /\ bnh_metrics'.initial_capital = initial_capital * One]_vars

\* C11 witness: a baseline reported after a strategy run that traded at a
\* non-zero cost rate, over a series whose last price differs from the
\* first
C11_Witness ==
    /\ rule_pc = "reported"
    /\ bt_transaction_cost > 0
    /\ actual[0] # actual[RuleRows - 1]
    /\ \E k \in 1..Len(results_df) : results_df[k].action = "BUY"
    /\ metrics.final_value # bnh_metrics.final_value

\* every pair of the frame is a perfect forecast
PerfectForecasts(d) == \A i \in 1..Len(d) : d[i].prediction = d[i].actual

\* C12: accuracy metrics on perfect forecasts.  calculate_accuracy_metrics
\* returns as MAE the mean of |prediction - actual| over the aligned pairs,
\* and when every prediction equals its actual, over at least 2 pairs,
\* MAE = 0, MAPE = 0 and correlation = 1.0.
C12_PerfectForecasts ==
    (acc_pc = "measured" /\ Len(acc_df) >= 1) =>
        /\ acc_metrics.mae =
             Quot(ColumnSum([i \in 1..Len(acc_df) |->
                     Abs(acc_df[i].prediction - acc_df[i].actual) * One]),
                  Len(acc_df))
        /\ (Len(acc_df) >= 2 /\ PerfectForecasts(acc_df)) =>
             /\ acc_metrics.mae = 0
             /\ acc_metrics.mape = 0
             /\ acc_metrics.correlation = num(One)

\* C18: insufficient accuracy data.  With fewer than 2 aligned pairs the
\* accuracy engine returns an empty result and raises no exception, from
\* calculate_accuracy_metrics and from run_accuracy_backtest.
C18_InsufficientData ==
    (acc_pc \in {"measured", "returned"} /\ Len(acc_df) < 2) =>
        /\ acc_metrics = EmptyInfo
        /\ raised = "none"

\* number of steps of a full episode
EpisodeLength == end_index - start_index

\* C13: episode termination in policy replay.  From reset and with any
\* action sequence, the k-th step of the loop brings current_step to
\* start_index + k and signals terminated exactly when that is end_index,
\* i.e. on step number end_index - start_index.  No step fails and, while
\* the loop runs, a next bar exists and fewer than that many records are
\* in the ledger, so the loop finishes, with exactly that many records.
C13_EpisodeTermination ==
    /\ eval_pc # "failed"
    /\ raised = "none"
    /\ current_step = start_index + Len(history)
    /\ \A k \in 1..Len(history) : history[k].step = start_index + k
    /\ Len(history) > 0 => (terminated <=> current_step = end_index)
    /\ eval_pc = "loop" =>
          /\ current_step < end_index
          /\ Len(history) < EpisodeLength
    /\ eval_pc \in {"metrics", "done"} =>
          /\ terminated
          /\ Len(history) = EpisodeLength

\* C13 witness: a finished evaluation whose policy traded and whose ledger
\* holds one record per step of the episode
C13_Witness ==
    /\ eval_pc = "done"
    /\ terminated
    /\ Len(history) = EpisodeLength
    /\ history[Len(history)].step = end_index
    /\ \E k \in 1..Len(history) : history[k].action = 2
    /\ \E k \in 1..Len(history) : history[k].action = 1

\* C14: an invalid price is fatal.  In rule replay, a bar whose price is
\* missing makes the run fail with an error and no trade record is emitted
\* for that bar.
C14_InvalidPriceFatal ==
    /\ \A k \in 1..Len(results) : results[k].price # NaNValue
    /\ (\E i \in 0..(bt_i - 1) : actual[i] = NaNValue) => rule_pc = "failed"

\* the action the rule takes on a bar with a forecast and a price
RuleAction(pred, price, pos) ==
    IF pred > price /\ pos = 0 THEN "BUY"
    ELSE IF pred < price /\ pos > 0 THEN "SELL"
    ELSE "HOLD"

\* C16: a missing forecast degrades to HOLD.  In rule replay, a bar whose
\* forecast is missing is recorded with action HOLD and leaves cash and
\* position unchanged; every other bar of the same run is processed by the
\* normal rule on the holdings it finds: BUY only when flat, SELL only when
\* holding, and one record per bar.
C16_MissingForecastHolds ==
    [][(SimulateStep /\ actual[bt_i] # NaNValue) =>
         LET rec == results'[Len(results')]
         IN  /\ Len(results') = Len(results) + 1
             /\ rec.date = bt_i
             /\ IF prediction[bt_i] = NaNValue
                THEN /\ rec.action = "HOLD"
                     /\ cash' = cash
                     /\ bt_position' = bt_position
                     /\ rec.cash = cash
                     /\ rec.position = bt_position
                ELSE /\ rec.action =
                          RuleAction(prediction[bt_i], actual[bt_i],
                                     bt_position)
                     /\ rec.action = "BUY" =>
                          (cash' = 0 /\ bt_position' > 0)
                     /\ rec.action = "SELL" =>
                          (bt_position' = 0 /\ cash' > 0)
                     /\ rec.action = "HOLD" =>
                          (cash' = cash /\ bt_position' = bt_position)]_vars

\* C16 witness: a run that bought, held through a bar with a missing
\* forecast while the price was above 0, and sold on the bar after it
C16_Witness ==
    /\ Len(results) >= 3
    /\ results[1].action = "BUY"
    /\ results[2].prediction = NaNValue
    /\ results[2].action = "HOLD"
    /\ results[2].position = results[1].position
    /\ results[3].action = "SELL"

\* C15: policy errors are fatal.  A step called with an action outside
\* {0, 1, 2} raises an error and changes no simulation state.
C15_PolicyErrorFatal ==
    [][\A a \in ActionValues \ {0, 1, 2} :
         StepWith(a) =>
            /\ raised' # "none"
            /\ UNCHANGED <<current_step, position, entry_price, holding_days,
                           returns, unrealized_profit>>]_vars

\* C17: partial results survive a failure.  When a policy-replay run fails
\* after k >= 1 completed steps, it still returns the ledger frame of those
\* k records.
C17_PartialResults ==
    (eval_pc = "failed" /\ Len(history) >= 1) =>
        /\ df # EmptyInfo
        /\ Len(df.net_equity) = Len(history)

\* C20: transaction cost only on an executed trade.  On every executed
\* step of either environment that leaves the position as it was (HOLD, a
\* request for the position already held, or a request suppressed by the
\* minimum hold), the transaction cost charged for the step is 0.
C20_CostOnlyOnTrade ==
    [][(StepExecuted /\ position' = position) => info'.txn_cost = 0]_vars

\* C19: run independence.  With the calls of two instances interleaved in
\* any order, the first instance has the episode start it has when run
\* alone, and the generator its next reset draws from is in the state it
\* is in when the first instance runs alone: no call of the second instance
\* has written it.
C19_RunIndependence ==
    /\ current_step - Len(returns) = solo_start
    /\ np_random = solo_random

\* C21: slippage in the basic environment.  On every executed step of
\* CrudeTradingEnv the slippage charged is the active rate while a position
\* is open and 0 while the position is FLAT, so a step taken while FLAT with
\* action HOLD has net_return 0.
C21_SlippageWhileOpen ==
    [][(env = "crude" /\ StepExecuted) =>
         /\ info'.slippage = IF position' # 0 THEN slippage ELSE 0
         /\ position' = 0 => info'.net_return = 0]_vars

\* the SELL records of the returned ledger: the completed trades
ClosingRecords == SelectSeq(results_df, LAMBDA r : r.action = "SELL")

\* the completed trades whose close shows a positive cumulative return
WinningCloses == SelectSeq(ClosingRecords, LAMBDA r : r.return_pct > 0)

\* C22: win rate of the rule-replay metrics.  win_rate is 100 times the
\* number of completed trades (a BUY with its closing SELL) whose close
\* shows a positive cumulative return over the number of completed trades,
\* lies between 0 and 100 percent, and is 0 without a completed trade.
C22_WinRate ==
    rule_pc \in {"done", "reported"} =>
        /\ metrics.win_rate >= 0
        /\ metrics.win_rate <= 100 * One
        /\ metrics.win_rate =
             IF Len(ClosingRecords) > 0
             THEN Quot(Len(WinningCloses) * 100 * One, Len(ClosingRecords))
             ELSE 0

\* pairs of frame d, from the second on, whose forecast direction equals
\* the direction the actual took, both against the previous actual
DirectionMatches(d) ==
    {i \in 2..Len(d) :
        Sign(d[i].prediction - d[i - 1].actual) =
        Sign(d[i].actual - d[i - 1].actual)}

\* C23: directional accuracy.  calculate_accuracy_metrics reports 100 times
\* the fraction of the pairs having a previous actual for which
\* sign(prediction - previous actual) = sign(actual - previous actual); a
\* forecast equal to the previous actual matches only an unchanged actual.
C23_DirectionalAccuracy ==
    (acc_pc = "measured" /\ Len(acc_df) >= 2) =>
        acc_metrics.directional_accuracy =
            Quot(Cardinality(DirectionMatches(acc_df)) * One,
                 Len(acc_df) - 1) * 100

\* C24: final-bar action.  A step called at the final bar (current_step =
\* end_index) with an action that opens or flips the position updates
\* position and entry price as on any other bar, appends nothing to the
\* return history and leaves current_step at the last row.
C24_FinalBarAction ==
    [][\A a \in {1, 2} :
         (/\ current_step = end_index
          /\ ~Suppressed(a)
          /\ position # Target(a)
          /\ StepWith(a)) =>
            /\ position' = Target(a)
            /\ entry_price' = close_price[current_step]
            /\ returns' = returns
            /\ current_step' = current_step]_vars

\* C25: advance bookkeeping.  After every executed step with a position
\* held, entry_price is the price of the bar where the position was opened
\* (the bar acted on when the side changed, kept otherwise), holding_days
\* counts the executed steps since that opening (1 right after it), and the
\* unrealized P&L is the price at the new current_step minus the entry
\* price for LONG, the entry price minus that price for SHORT.
C25_AdvanceBookkeeping ==
    [][(StepExecuted /\ position' # 0) =>
         /\ entry_price' = IF position' # position
                             THEN close_price[current_step] ELSE entry_price
         /\ holding_days' = IF position' # position
                              THEN 1 ELSE holding_days + 1
         /\ entry_price' = close_price[current_step' - holding_days']
         /\ unrealized_profit' =
              IF position' = 1
                THEN close_price[current_step'] - entry_price'
                ELSE entry_price' - close_price[current_step']]_vars

\* C25 witness: a SHORT held over several executed steps with a non-zero
\* unrealized P&L
C25_Witness ==
    /\ position = -1
    /\ holding_days >= 2
    /\ unrealized_profit # 0
    /\ current_step <= end_index
    /\ Len(returns) >= 3

\* C26: the ledger records the action taken.  In every ledger record the
\* action is the one the state machine applied after legalization, so a
\* record with action LONG has position LONG and a record with action SHORT
\* has position SHORT.
C26_LedgerActionTaken ==
    \A k \in 1..Len(history) :
        /\ history[k].action = 1 => history[k].position = 1
        /\ history[k].action = 2 => history[k].position = -1

\* C27: reset restores the initial state.  A reset called in any reachable
\* state leaves the position FLAT, entry price, holding days and unrealized
\* P&L 0 and the return history empty; current_step is start_index without
\* random_start and within [start_index, end_index] with it; the active
\* cost rates are unchanged.
C27_ResetRestores ==
    [][\A rs \in BOOLEAN :
         ((RWReset /\ ~rs) \/ CrudeReset(<<>>, rs)) =>
            /\ position' = 0
            /\ entry_price' = 0
            /\ holding_days' = 0
            /\ unrealized_profit' = 0
            /\ returns' = <<>>
            /\ ~rs => current_step' = start_index
            /\ rs => current_step' \in start_index..end_index
            /\ transaction_cost' = transaction_cost
            /\ slippage' = slippage]_vars

\* C27 witness: a fresh episode under the training rates, reset after an
\* earlier episode had run to its end
C27_Witness ==
    /\ terminated
    /\ use_cost_curriculum
    /\ transaction_cost = rates.train_tx
    /\ returns = <<>>
    /\ position = 0
    /\ holding_days = 0
    /\ current_step = start_index
    /\ raised = "none"

\* C28: bounded step index.  Under any sequence of calls current_step
\* never exceeds end_index, no bar beyond the last row is read, and a step
\* called at or after the final bar changes no state.
C28_BoundedStepIndex ==
    [][/\ current_step' <= end_index
       /\ raised' # "KeyError"
       /\ \A a \in ActionValues :
            (current_step >= end_index /\ StepWith(a)) =>
                UNCHANGED <<current_step, position, entry_price,
                            holding_days, returns, unrealized_profit>>]_vars

\* C29: no exit to cash.  Once a position is opened it is LONG or SHORT
\* after every later call; only a reset brings it back to FLAT.
C29_NoExitToCash ==
    [][(position # 0 /\ position' = 0) =>
         (RWReset \/ \E rs \in BOOLEAN : CrudeReset(<<>>, rs))]_vars

\* C29 witness: a position that was flipped late in an episode and is still
\* open
C29_Witness ==
    /\ position # 0
    /\ holding_days = 1
    /\ Len(returns) >= 4
    /\ raised = "none"

\* the BUY and SELL records of the rule replay, in order
Trades == SelectSeq(results, LAMBDA r : r.action # "HOLD")

\* C30: long-or-cash exclusivity of the rule replay.  Over a valid price
\* series every record has exactly one of cash and position strictly
\* positive and the other 0; a BUY is recorded only from a flat record, a
\* SELL only from an invested one; BUY and SELL alternate, a BUY first.
C30_LongOrCash ==
    /\ \A k \in 1..Len(results) :
        /\ \/ results[k].cash > 0 /\ results[k].position = 0
           \/ results[k].cash = 0 /\ results[k].position > 0
        /\ results[k].action = "BUY" =>
              (k = 1 \/ results[k - 1].position = 0)
        /\ results[k].action = "SELL" =>
              (k > 1 /\ results[k - 1].position > 0)
    /\ \A j \in 1..Len(Trades) :
        Trades[j].action = IF j % 2 = 1 THEN "BUY" ELSE "SELL"

\* C30 witness: a replay that bought, sold and bought again
C30_Witness ==
    /\ Len(Trades) >= 3
    /\ results[Len(results)].position > 0

====
